---- MODULE Spec2Model ----
(***************************************************************************)
(* Model of app.py: the "Generate Itinerary" handler of the AI Travel      *)
(* Planner.  One run is a linear pass: four SerpAPI lookups, each in its   *)
(* own try/except, then the LLM call, then the display, all inside one     *)
(* outer try/except that renders st.error.                                 *)
(***************************************************************************)
EXTENDS Integers, Sequences, FiniteSets, TLC

VARIABLES
    pc,          \* position of the script: idle, the six steps, done
    trip,        \* the six widget values read at lines 74-79
    results,     \* the local `results` (last dict get_dict() returned)
    attractions, \* list built at lines 85-96
    hotels,      \* list built at lines 99-113
    flights,     \* list built at lines 116-134
    weather,     \* string built at lines 137-148
    itinerary,   \* text returned by travel_chain.run
    screen,      \* elements rendered on the page by this run, in order
    queryLog,    \* provider queries issued by this run, in order
    served,      \* what the provider answered to each query of this run
    llmCalls,    \* number of calls that reached the model in this run
    llmArgs,     \* keyword arguments of the travel_chain.run call
    prompt,      \* the filled template handed to the model
    raisedAt     \* where the exception caught at line 180 came from

vars == <<pc, trip, results, attractions, hotels, flights, weather, itinerary,
          screen, queryLog, served, llmCalls, llmArgs, prompt, raisedAt>>

(***************************************************************************)
(* Bounds and program constants                                            *)
(***************************************************************************)
\* longest result list the provider returns in the model (one above the cap)
MaxResults == 6

\* the [:5] slice of lines 94, 111, 131
Cap == 5

Kinds == <<"attractions", "hotels", "flights", "weather">>

(***************************************************************************)
(* Python values                                                           *)
(***************************************************************************)
PyStr(s) == [type |-> "str", s |-> s, n |-> 0]
PyInt(i) == [type |-> "int", s |-> "", n |-> i]
PyNone == [type |-> "NoneType", s |-> "", n |-> 0]

\* format(value) as an f-string replacement field does it
FStr(v) ==
    CASE v.type = "str" -> v.s
      [] v.type = "int" -> ToString(v.n)
      [] OTHER -> "None"

\* outcome of evaluating an expression: a value or a raised exception
Ok(v) == [raised |-> FALSE, val |-> v, msg |-> ""]
Raise(m) == [raised |-> TRUE, val |-> <<>>, msg |-> m]

(***************************************************************************)
(* Provider responses.  A JSON object is a record with the set of keys it  *)
(* holds; a value that is not an object has isDict = FALSE.                *)
(***************************************************************************)
NoRate == [isDict |-> TRUE, keys |-> {}, lowest |-> ""]

Entry(keys, title, name, airline, price, rate) ==
    [isDict |-> TRUE, keys |-> keys, title |-> title, name |-> name,
     airline |-> airline, price |-> price, rate |-> rate]

\* an element of a result list that is not a JSON object (a string, null)
NotAnObject ==
    [isDict |-> FALSE, keys |-> {}, title |-> "", name |-> "",
     airline |-> "", price |-> 0, rate |-> NoRate]

NoBox == [isDict |-> TRUE, keys |-> {}, temperature |-> ""]

\* get_dict() returned the object with top-level `keys`
Response(keys, isList, list, box) ==
    [raises |-> FALSE, keys |-> keys, isList |-> isList, list |-> list,
     answer_box |-> box]

\* get_dict() raised (network error, bad JSON, bad key)
ProviderError ==
    [raises |-> TRUE, keys |-> {}, isList |-> TRUE, list |-> <<>>,
     answer_box |-> NoBox]

\* the value of `results` before the first assignment to it
NoResults == Response({}, TRUE, <<>>, NoBox)

ListKey(kind) ==
    CASE kind = "attractions" -> "organic_results"
      [] kind = "hotels" -> "properties"
      [] kind = "flights" -> "best_flights"
      [] OTHER -> "answer_box"

Engine(kind) ==
    CASE kind = "hotels" -> "google_hotels"
      [] kind = "flights" -> "google_flights"
      [] OTHER -> "google"

Titles == <<"Fort Aguada", "Baga Beach">>
Names == <<"Taj", "Ibis">>
Airlines == <<"IndiGo", "Vistara">>

Pick(seq, i) == seq[((i - 1) % Len(seq)) + 1]

\* a complete entry of the result list of `kind`, the i-th the provider has
GoodEntry(kind, i) ==
    CASE kind = "attractions" ->
            Entry({"title"}, Pick(Titles, i), "", "", 0, NoRate)
      [] kind = "hotels" ->
            Entry({"name", "rate_per_night"}, "", Pick(Names, i), "", 0,
                  [isDict |-> TRUE, keys |-> {"lowest"}, lowest |-> ToString(3000 + i)])
      [] OTHER ->
            Entry({"airline", "price"}, "", "", Pick(Airlines, i), 5000 + i, NoRate)

\* entries with something missing or of the wrong type
BadEntries(kind) ==
    CASE kind = "attractions" ->
            {NotAnObject, Entry({}, "", "", "", 0, NoRate)}
      [] kind = "hotels" ->
            {NotAnObject,
             Entry({"rate_per_night"}, "", "", "", 0,
                   [isDict |-> TRUE, keys |-> {}, lowest |-> ""]),
             Entry({"name"}, "", "Taj", "", 0, NoRate),
             Entry({"name", "rate_per_night"}, "", "Taj", "", 0,
                   [isDict |-> FALSE, keys |-> {}, lowest |-> ""])}
      [] OTHER ->
            {NotAnObject, Entry({"airline"}, "", "", "IndiGo", 0, NoRate)}

GoodList(kind, n) == [i \in 1..n |-> GoodEntry(kind, i)]

\* GoodList with the entry at position p replaced by e
ListWith(kind, n, p, e) == [i \in 1..n |-> IF i = p THEN e ELSE GoodEntry(kind, i)]

\* the answers the provider may give to the query of a list lookup
ListResponses(kind) ==
    {ProviderError,
     Response({}, TRUE, <<>>, NoBox),
     Response({ListKey(kind)}, FALSE, <<>>, NoBox)}
    \cup {Response({ListKey(kind)}, TRUE, GoodList(kind, n), NoBox) :
             n \in {0, 2, MaxResults}}
    \cup {Response({ListKey(kind)}, TRUE, ListWith(kind, 2, 1, e), NoBox) :
             e \in BadEntries(kind)}
    \cup {Response({ListKey(kind)}, TRUE, ListWith(kind, MaxResults, MaxResults, NotAnObject), NoBox)}

\* the answers the provider may give to the weather query
WeatherResponses ==
    {ProviderError,
     Response({"organic_results"}, TRUE, GoodList("attractions", 1), NoBox),
     Response({"answer_box"}, TRUE, <<>>, [isDict |-> FALSE, keys |-> {}, temperature |-> ""]),
     Response({"answer_box"}, TRUE, <<>>, [isDict |-> TRUE, keys |-> {}, temperature |-> ""]),
     Response({"answer_box"}, TRUE, <<>>, [isDict |-> TRUE, keys |-> {"temperature"}, temperature |-> ""]),
     Response({"answer_box"}, TRUE, <<>>, [isDict |-> TRUE, keys |-> {"temperature"}, temperature |-> "31"])}

Responses(kind) == IF kind = "weather" THEN WeatherResponses ELSE ListResponses(kind)

(***************************************************************************)
(* The four lookups (lines 84-148)                                         *)
(***************************************************************************)
Take(list, n) == [i \in 1..(IF Len(list) < n THEN Len(list) ELSE n) |-> list[i]]

\* dict.get(key) / dict.get(key, default) on an entry
Get(e, key, default) ==
    IF key \notin e.keys THEN default
    ELSE CASE key = "title" -> PyStr(e.title)
           [] key = "name" -> PyStr(e.name)
           [] key = "airline" -> PyStr(e.airline)
           [] OTHER -> PyInt(e.price)

\* hotel.get('rate_per_night', {})
RateOf(e) == IF "rate_per_night" \in e.keys THEN e.rate ELSE NoRate

\* the element expression of the comprehension raises (AttributeError)
ItemRaises(kind, e) ==
    \/ ~e.isDict
    \/ kind = "hotels" /\ ~RateOf(e).isDict

\* the element expression of the comprehension of lines 94, 110, 130
Item(kind, e) ==
    CASE kind = "attractions" -> Get(e, "title", PyNone)
      [] kind = "hotels" ->
            PyStr(FStr(Get(e, "name", PyNone)) \o " - "
                  \o (IF "lowest" \in RateOf(e).keys THEN RateOf(e).lowest ELSE "N/A")
                  \o " INR")
      [] OTHER ->
            PyStr(FStr(Get(e, "airline", PyNone)) \o " - "
                  \o FStr(Get(e, "price", PyNone)) \o " INR")

\* Sliced with results[key] in place of results.get(key, []): KeyError
SlicedStrict(kind, res) ==
    IF ListKey(kind) \notin res.keys THEN Raise("KeyError")
    ELSE IF ~res.isList THEN Raise("TypeError")
    ELSE Ok(Take(res.list, Cap))

\* results.get(key, [])[:5]
Sliced(kind, res) ==
    IF ListKey(kind) \notin res.keys THEN Ok(<<>>)
    ELSE IF ~res.isList THEN Raise("TypeError")
    ELSE Ok(Take(res.list, Cap))

\* [<item> for x in results.get(key, [])[:5]]
Extract(kind, res) ==
    LET raw == Sliced(kind, res)
    IN  IF raw.raised THEN raw
        ELSE IF \E i \in DOMAIN raw.val : ItemRaises(kind, raw.val[i])
             THEN Raise("AttributeError")
             ELSE Ok([i \in DOMAIN raw.val |-> Item(kind, raw.val[i])])

\* results.get("answer_box", {}).get("temperature") or "Weather info not found"
ExtractWeather(res) ==
    LET box == IF "answer_box" \in res.keys THEN res.answer_box ELSE NoBox
    IN  IF ~box.isDict THEN Raise("AttributeError")
        ELSE IF "temperature" \in box.keys /\ box.temperature # ""
             THEN Ok(box.temperature)
             ELSE Ok("Weather info not found")

\* the body of the try block of a lookup: query the provider, then extract
TryBody(kind, resp) ==
    IF resp.raises THEN Raise("provider")
    ELSE IF kind = "weather" THEN ExtractWeather(resp) ELSE Extract(kind, resp)

\* the value each except clause assigns (lines 96, 113, 134, 148)
Fallback(kind) ==
    CASE kind = "attractions" -> <<PyStr("No attractions found")>>
      [] kind = "hotels" -> <<PyStr("No hotels found")>>
      [] kind = "flights" -> <<PyStr("No flights found")>>
      [] OTHER -> "Weather API error"

\* the value the lookup variable holds after its try/except
Lookup(kind, resp) ==
    LET out == TryBody(kind, resp)
    IN  IF out.raised THEN Fallback(kind) ELSE out.val

\* `results` after the try/except: assigned only if get_dict() returned
ResultsAfter(resp) == IF resp.raises THEN results ELSE resp

Query(kind) == [kind |-> kind, engine |-> Engine(kind)]

\* what every lookup does besides assigning its own variable
Issue(kind, resp) ==
    /\ queryLog' = Append(queryLog, Query(kind))
    /\ served' = Append(served, resp)
    /\ results' = ResultsAfter(resp)

AttractionsLookup ==
    /\ pc = "attractions"
    /\ \E resp \in Responses("attractions") :
          /\ Issue("attractions", resp)
          /\ attractions' = Lookup("attractions", resp)
    /\ pc' = "hotels"
    /\ UNCHANGED <<trip, hotels, flights, weather, itinerary, screen,
                   llmCalls, llmArgs, prompt, raisedAt>>

\* HotelsLookup without its try/except: a raise reaches the outer handler
HotelsLookupUnguarded ==
    /\ pc = "hotels"
    /\ \E resp \in Responses("hotels") :
          /\ Issue("hotels", resp)
          /\ IF TryBody("hotels", resp).raised
             THEN /\ raisedAt' = "hotels"
                  /\ screen' = Append(screen, [widget |-> "error", text |-> "Error: hotels"])
                  /\ pc' = "done"
                  /\ UNCHANGED hotels
             ELSE /\ hotels' = TryBody("hotels", resp).val
                  /\ pc' = "flights"
                  /\ UNCHANGED <<screen, raisedAt>>
    /\ UNCHANGED <<trip, attractions, flights, weather, itinerary,
                   llmCalls, llmArgs, prompt>>

HotelsLookup ==
    /\ pc = "hotels"
    /\ \E resp \in Responses("hotels") :
          /\ Issue("hotels", resp)
          /\ hotels' = Lookup("hotels", resp)
    /\ pc' = "flights"
    /\ UNCHANGED <<trip, attractions, flights, weather, itinerary, screen,
                   llmCalls, llmArgs, prompt, raisedAt>>

\* FlightsLookup whose except clause assigns `hotels` (a copied clause)
FlightsLookupCopied ==
    /\ pc = "flights"
    /\ \E resp \in Responses("flights") :
          /\ Issue("flights", resp)
          /\ IF TryBody("flights", resp).raised
             THEN /\ hotels' = Fallback("flights")
                  /\ UNCHANGED flights
             ELSE /\ flights' = TryBody("flights", resp).val
                  /\ UNCHANGED hotels
    /\ pc' = "weather"
    /\ UNCHANGED <<trip, attractions, weather, itinerary, screen,
                   llmCalls, llmArgs, prompt, raisedAt>>

FlightsLookup ==
    /\ pc = "flights"
    /\ \E resp \in Responses("flights") :
          /\ Issue("flights", resp)
          /\ flights' = Lookup("flights", resp)
    /\ pc' = "weather"
    /\ UNCHANGED <<trip, attractions, hotels, weather, itinerary, screen,
                   llmCalls, llmArgs, prompt, raisedAt>>

\* WeatherLookup that queries again when the provider call raised
WeatherLookupRetry ==
    /\ pc = "weather"
    /\ \E resp \in Responses("weather") :
          /\ Issue("weather", resp)
          /\ weather' = Lookup("weather", resp)
          /\ pc' = IF resp.raises THEN "weather" ELSE "generate"
    /\ UNCHANGED <<trip, attractions, hotels, flights, itinerary, screen,
                   llmCalls, llmArgs, prompt, raisedAt>>

WeatherLookup ==
    /\ pc = "weather"
    /\ \E resp \in Responses("weather") :
          /\ Issue("weather", resp)
          /\ weather' = Lookup("weather", resp)
    /\ pc' = "generate"
    /\ UNCHANGED <<trip, attractions, hotels, flights, itinerary, screen,
                   llmCalls, llmArgs, prompt, raisedAt>>

(***************************************************************************)
(* The prompt template and the generation call (lines 17-68, 151-162)      *)
(***************************************************************************)
Lit(text) == [ph |-> FALSE, text |-> text]
Ph(name) == [ph |-> TRUE, text |-> name]

\* the template string of lines 19-65, cut at its replacement fields
prompt_template ==
    <<Lit("\nYou are an AI Travel Planner.  \nYour task is to create a **realistic and detailed day-wise itinerary**.\n\n### Trip Details:\n- Departure City: "),
      Ph("departure"),
      Lit("  \n- Destination City: "), Ph("destination"),
      Lit("  \n- Travel Dates: "), Ph("start_date"), Lit(" to "), Ph("end_date"),
      Lit("  \n- Total Budget: Rs "), Ph("budget"),
      Lit("  \n- Traveler Interests: "), Ph("interests"),
      Lit("  \n\n### Available Information:\n- Recommended Attractions: "), Ph("places"),
      Lit("  \n- Weather Forecast: "), Ph("weather"),
      Lit("  \n- Hotel Options: "), Ph("hotels"),
      Lit("  \n- Flight Options: "), Ph("flights"),
      Lit("  \n\n---\n\n### Instructions: ... #### Day-Wise Itinerary ... #### Trip Summary ...\n")>>

\* input_variables of line 18
input_variables ==
    {"departure", "destination", "start_date", "end_date", "budget",
     "interests", "places", "weather", "hotels", "flights"}

Placeholders(tpl) == {tpl[i].text : i \in {j \in DOMAIN tpl : tpl[j].ph}}

\* index of the first element of list that is not a str, 0 if there is none
FirstNonStr(list) ==
    IF \A i \in DOMAIN list : list[i].type = "str" THEN 0
    ELSE CHOOSE i \in DOMAIN list :
            /\ list[i].type # "str"
            /\ \A j \in 1..(i - 1) : list[j].type = "str"

RECURSIVE Joined(_, _)
Joined(sep, list) ==
    IF Len(list) = 0 THEN ""
    ELSE IF Len(list) = 1 THEN list[1].s
    ELSE list[1].s \o sep \o Joined(sep, Tail(list))

\* sep.join(list): TypeError on an element that is not a str
Join(sep, list) ==
    IF FirstNonStr(list) # 0
    THEN Raise("sequence item " \o ToString(FirstNonStr(list) - 1)
               \o ": expected str instance, NoneType found")
    ELSE Ok(Joined(sep, list))

\* Kwargs with the hotels and flights arguments exchanged
KwargsSwapped ==
    [departure |-> trip.departure,
     destination |-> trip.destination,
     start_date |-> trip.start_date,
     end_date |-> trip.end_date,
     budget |-> trip.budget,
     interests |-> trip.interests,
     places |-> Join(", ", attractions).val,
     weather |-> weather,
     hotels |-> Join(", ", flights).val,
     flights |-> Join(", ", hotels).val]

\* Kwargs of a call that was not given the flights argument
KwargsNoFlights ==
    [departure |-> trip.departure,
     destination |-> trip.destination,
     start_date |-> trip.start_date,
     end_date |-> trip.end_date,
     budget |-> trip.budget,
     interests |-> trip.interests,
     places |-> Join(", ", attractions).val,
     weather |-> weather,
     hotels |-> Join(", ", hotels).val]

\* the keyword arguments of lines 152-161, once the joins have succeeded
Kwargs ==
    [departure |-> trip.departure,
     destination |-> trip.destination,
     start_date |-> trip.start_date,
     end_date |-> trip.end_date,
     budget |-> trip.budget,
     interests |-> trip.interests,
     places |-> Join(", ", attractions).val,
     weather |-> weather,
     hotels |-> Join(", ", hotels).val,
     flights |-> Join(", ", flights).val]

\* evaluating the arguments of the call raises
ArgsRaise ==
    IF Join(", ", attractions).raised THEN Join(", ", attractions)
    ELSE IF Join(", ", hotels).raised THEN Join(", ", hotels)
    ELSE Join(", ", flights)

\* prompt.format(**kw): every replacement field replaced by its argument
Format(tpl, kw) ==
    [i \in DOMAIN tpl |->
        IF tpl[i].ph /\ tpl[i].text \in DOMAIN kw THEN Lit(kw[tpl[i].text]) ELSE tpl[i]]

\* the chain refuses inputs that miss a declared variable or a field
FormatRaises(tpl, kw) ==
    \/ ~(input_variables \subseteq DOMAIN kw)
    \/ ~(Placeholders(tpl) \subseteq DOMAIN kw)

\* st.error(f"Error: {e}") of line 181
ErrorBox(msg) == [widget |-> "error", text |-> "Error: " \o msg]

\* what the model may answer: a text, or the call raises
LlmOutcomes ==
    {Ok("| Day | Morning Activities |"), Ok(""), Raise("connection refused")}

NoArgs == [none |-> ""]

\* OuterExcept with `pass` in place of st.error
OuterExceptSilent(site, msg) ==
    /\ raisedAt' = site
    /\ screen' = screen
    /\ pc' = "done"

\* the except clause of line 180, entered from `site` with message msg
OuterExcept(site, msg) ==
    /\ raisedAt' = site
    /\ screen' = Append(screen, ErrorBox(msg))
    /\ pc' = "done"

\* lines 151-162: join the lists, fill the template, call the model
Generate ==
    /\ pc = "generate"
    /\ IF ArgsRaise.raised
       THEN /\ OuterExcept("join", ArgsRaise.msg)
            /\ UNCHANGED <<itinerary, llmCalls, llmArgs, prompt>>
       ELSE /\ llmArgs' = Kwargs
            /\ IF FormatRaises(prompt_template, Kwargs)
               THEN /\ OuterExcept("format", "Missing some input keys")
                    /\ UNCHANGED <<itinerary, llmCalls, prompt>>
               ELSE /\ prompt' = Format(prompt_template, Kwargs)
                    /\ llmCalls' = llmCalls + 1
                    /\ \E out \in LlmOutcomes :
                          IF out.raised
                          THEN /\ OuterExcept("generation", out.msg)
                               /\ UNCHANGED itinerary
                          ELSE /\ itinerary' = out.val
                               /\ pc' = "display"
                               /\ UNCHANGED <<screen, raisedAt>>
    /\ UNCHANGED <<trip, results, attractions, hotels, flights, weather,
                   queryLog, served>>

(***************************************************************************)
(* The display (lines 165-178)                                             *)
(***************************************************************************)
Widget(w, text) == [widget |-> w, text |-> text]

\* for x in list: st.write(f"- {x}")
Bullets(list) == [i \in DOMAIN list |-> Widget("write", "- " \o FStr(list[i]))]

\* the st.* calls of lines 165-178, in order
DisplayCalls ==
    <<Widget("success", "Itinerary generated!"),
      Widget("subheader", "Suggested Attractions")>>
    \o Bullets(attractions)
    \o <<Widget("subheader", "Hotel Options")>>
    \o Bullets(hotels)
    \o <<Widget("subheader", "Flight Options")>>
    \o Bullets(flights)
    \o <<Widget("subheader", "Weather Forecast"),
         Widget("write", weather),
         Widget("subheader", "Itinerary"),
         Widget("markdown", itinerary)>>

\* Display that does not wait for the generation call
DisplayEarly ==
    /\ pc \in {"generate", "display"}
    /\ screen' = screen \o DisplayCalls
    /\ pc' = "done"
    /\ UNCHANGED <<trip, results, attractions, hotels, flights, weather, itinerary,
                   queryLog, served, llmCalls, llmArgs, prompt, raisedAt>>

\* lines 165-178: the calls run in order; the first one that raises, if any,
\* ends the block and enters the except clause of line 180
Display ==
    /\ pc = "display"
    /\ \E done \in 0..Len(DisplayCalls) :
          IF done = Len(DisplayCalls)
          THEN /\ screen' = screen \o DisplayCalls
               /\ pc' = "done"
               /\ UNCHANGED raisedAt
          ELSE /\ raisedAt' = "display"
               /\ screen' = (screen \o SubSeq(DisplayCalls, 1, done))
                               \o <<ErrorBox("render failed")>>
               /\ pc' = "done"
    /\ UNCHANGED <<trip, results, attractions, hotels, flights, weather,
                   itinerary, queryLog, served, llmCalls, llmArgs, prompt>>

(***************************************************************************)
(* The widgets and the trigger (lines 74-82)                               *)
(***************************************************************************)
Trips ==
    {[departure |-> "DEL", destination |-> "Goa", start_date |-> "2024-12-01",
      end_date |-> "2024-12-05", budget |-> "50000", interests |-> "beach, food"],
     [departure |-> "", destination |-> "", start_date |-> "2024-12-01",
      end_date |-> "2024-12-01", budget |-> "", interests |-> ""]}

\* the state of a script run before the button branch is taken
Fresh ==
    /\ results = NoResults
    /\ attractions = <<>>
    /\ hotels = <<>>
    /\ flights = <<>>
    /\ weather = ""
    /\ itinerary = ""
    /\ screen = <<>>
    /\ queryLog = <<>>
    /\ served = <<>>
    /\ llmCalls = 0
    /\ llmArgs = NoArgs
    /\ prompt = <<>>
    /\ raisedAt = "none"

Init ==
    /\ pc = "idle"
    /\ trip \in Trips
    /\ Fresh

\* st.button returns True: the script reruns from the top with the widget values
Trigger ==
    /\ pc \in {"idle", "done"}
    /\ pc' = "attractions"
    /\ trip' \in Trips
    /\ results' = NoResults
    /\ attractions' = <<>>
    /\ hotels' = <<>>
    /\ flights' = <<>>
    /\ weather' = ""
    /\ itinerary' = ""
    /\ screen' = <<>>
    /\ queryLog' = <<>>
    /\ served' = <<>>
    /\ llmCalls' = 0
    /\ llmArgs' = NoArgs
    /\ prompt' = <<>>
    /\ raisedAt' = "none"

Next ==
    \/ Trigger
    \/ AttractionsLookup
    \/ HotelsLookup
    \/ FlightsLookup
    \/ WeatherLookup
    \/ Generate
    \/ Display

Spec == Init /\ [][Next]_vars

(***************************************************************************)
(* Vocabulary of the properties                                            *)
(***************************************************************************)
Steps == <<"attractions", "hotels", "flights", "weather", "generate", "display", "done">>

StepIdx(p) == IF p = "idle" THEN 0 ELSE CHOOSE i \in DOMAIN Steps : Steps[i] = p

ListKinds == {1, 2, 3}

\* the variable the k-th lookup assigns
ResultOf(k) ==
    CASE k = 1 -> attractions
      [] k = 2 -> hotels
      [] k = 3 -> flights
      [] OTHER -> weather

\* the k-th lookup of this run has run
Finished(k) == Len(served) >= k /\ StepIdx(pc) > k

Min(a, b) == IF a < b THEN a ELSE b

\* the response makes the try block of the k-th lookup raise
MakesRaise(k, resp) ==
    \/ resp.raises
    \/ /\ k \in ListKinds
       /\ ListKey(Kinds[k]) \in resp.keys
       /\ \/ ~resp.isList
          \/ \E i \in 1..Min(Cap, Len(resp.list)) :
                \/ ~resp.list[i].isDict
                \/ /\ k = 2
                   /\ "rate_per_night" \in resp.list[i].keys
                   /\ ~resp.list[i].rate.isDict
    \/ /\ k = 4
       /\ "answer_box" \in resp.keys
       /\ ~resp.answer_box.isDict

\* the response lacks something the k-th lookup reads
MissesFields(k, resp) ==
    /\ ~resp.raises
    /\ \/ ListKey(Kinds[k]) \notin resp.keys
       \/ /\ k \in ListKinds
          /\ \E i \in 1..Min(Cap, Len(resp.list)) :
                \/ k = 1 /\ "title" \notin resp.list[i].keys
                \/ k = 2 /\ ~({"name", "rate_per_night"} \subseteq resp.list[i].keys)
                \/ k = 3 /\ ~({"airline", "price"} \subseteq resp.list[i].keys)
       \/ k = 4 /\ "temperature" \notin resp.answer_box.keys

\* the run is still inside or past its lookups without having been abandoned
\* in one: the script stands at the step that follows the last query
LookupsContinue ==
    /\ raisedAt \notin {"attractions", "hotels", "flights", "weather"}
    /\ (pc # "idle" /\ Len(served) < 4) => pc = Steps[Len(served) + 1]
    /\ pc \in {"generate", "display", "done"} => Len(served) = 4

(***************************************************************************)
(* Properties                                                              *)
(***************************************************************************)

\* C1: whenever the provider call of a lookup raised, the lookup's variable
\* holds exactly its fixed fallback (["No attractions found"], ["No hotels
\* found"], ["No flights found"], "Weather API error"), the exception did not
\* reach the outer handler, and the run went on to the next step.
C1_FallbackOnProviderError ==
    /\ LookupsContinue
    /\ \A k \in 1..4 :
          (Finished(k) /\ served[k].raises) =>
              ResultOf(k) = (CASE k = 1 -> <<PyStr("No attractions found")>>
                               [] k = 2 -> <<PyStr("No hotels found")>>
                               [] k = 3 -> <<PyStr("No flights found")>>
                               [] OTHER -> "Weather API error")

\* a run whose four provider calls all raised and that still reached the display
C1_Witness ==
    /\ pc = "done"
    /\ raisedAt = "none"
    /\ Len(served) = 4
    /\ \A k \in 1..4 : served[k].raises
    /\ Len(screen) = 11
    /\ screen[3].text = "- No attractions found"

\* C2 as stated: every failed lookup, a response with missing fields included,
\* yields the single fixed fallback and nothing else (no empty list, no
\* partially filled entry, no abandoned run).
C2_Original ==
    /\ LookupsContinue
    /\ \A k \in 1..4 :
          (Finished(k) /\ (MakesRaise(k, served[k]) \/ MissesFields(k, served[k]))) =>
              ResultOf(k) = Fallback(Kinds[k])

\* C2 amended: a lookup yields its fallback exactly when its try block raises
\* (provider error, result list that is not a list, one of the first five
\* entries not an object, hotel rate not an object, answer box not an object).
\* Missing fields do not raise: no result-list key gives the empty list, an
\* attraction without title gives a None element, a hotel or flight without a
\* field gives a string with "None" (rate "N/A") in its place, no answer box
\* or temperature gives "Weather info not found".  Either way the lookup
\* itself never abandons the run.
C2_FallbackOnlyWhenRaised ==
    /\ LookupsContinue
    /\ \A k \in 1..4 :
          Finished(k) =>
              LET resp == served[k]
                  n == Min(Cap, Len(resp.list))
              IN  /\ MakesRaise(k, resp) => ResultOf(k) = Fallback(Kinds[k])
                  /\ (~MakesRaise(k, resp) /\ k \in ListKinds) =>
                        /\ Len(ResultOf(k)) =
                              (IF ListKey(Kinds[k]) \in resp.keys THEN n ELSE 0)
                        /\ \A i \in 1..Len(ResultOf(k)) :
                              LET e == resp.list[i]
                                  r == ResultOf(k)[i]
                              IN  CASE k = 1 ->
                                         r = (IF "title" \in e.keys THEN PyStr(e.title) ELSE PyNone)
                                    [] k = 2 ->
                                         r = PyStr((IF "name" \in e.keys THEN e.name ELSE "None")
                                                   \o " - "
                                                   \o (IF /\ "rate_per_night" \in e.keys
                                                          /\ "lowest" \in e.rate.keys
                                                       THEN e.rate.lowest ELSE "N/A")
                                                   \o " INR")
                                    [] OTHER ->
                                         r = PyStr((IF "airline" \in e.keys THEN e.airline ELSE "None")
                                                   \o " - "
                                                   \o (IF "price" \in e.keys THEN ToString(e.price) ELSE "None")
                                                   \o " INR")
                  /\ (~MakesRaise(k, resp) /\ k = 4) =>
                        weather = (IF /\ "answer_box" \in resp.keys
                                      /\ "temperature" \in resp.answer_box.keys
                                      /\ resp.answer_box.temperature # ""
                                   THEN resp.answer_box.temperature
                                   ELSE "Weather info not found")

\* the four lookups done: no organic_results key gave [], an entry that is not
\* an object gave the hotels fallback, a flight without price gave "None", no
\* answer box gave the not-found text
C2_Witness ==
    /\ pc = "generate"
    /\ Len(served) = 4
    /\ "organic_results" \notin served[1].keys /\ ~served[1].raises
    /\ attractions = <<>>
    /\ ~served[2].raises /\ Len(served[2].list) = 2 /\ ~served[2].list[1].isDict
    /\ hotels = <<PyStr("No hotels found")>>
    /\ Len(flights) = 2 /\ flights[1] = PyStr("IndiGo - None INR")
    /\ ~served[4].raises /\ "answer_box" \notin served[4].keys
    /\ weather = "Weather info not found"

\* C3 as stated: the attractions, hotels and flights results hold at most five
\* elements, in provider order, each a non-empty string and never None.
C3_Original ==
    \A k \in ListKinds :
        (Finished(k) /\ ~MakesRaise(k, served[k])) =>
            /\ Len(ResultOf(k)) <= Cap
            /\ \A i \in 1..Len(ResultOf(k)) :
                  /\ ResultOf(k)[i].type = "str"
                  /\ ResultOf(k)[i].s # ""

\* C4: when the generation call raised after the four lookups, the page of
\* that run shows the error message and nothing else.
C4_GenerationFailureShowsOnlyError ==
    (pc = "done" /\ raisedAt = "generation") =>
        /\ Len(screen) = 1
        /\ screen[1].widget = "error"
        /\ screen[1].text = "Error: connection refused"

\* the model call raised after four lookups that all returned full lists
C4_Witness ==
    /\ pc = "done"
    /\ raisedAt = "generation"
    /\ llmCalls = 1
    /\ Len(attractions) = Cap /\ Len(hotels) = Cap /\ Len(flights) = Cap
    /\ weather = "31"

\* C5: each lookup's result is fixed by that lookup's own provider response
\* and is written by that lookup alone: no other step of the run changes it,
\* whatever the other lookups did (succeeded or failed).
C5_LookupsIndependent ==
    /\ [](\A k \in 1..4 : Finished(k) => ResultOf(k) = Lookup(Kinds[k], served[k]))
    /\ [][\A k \in 1..4 :
             (pc # Kinds[k] /\ pc' # "attractions") => ResultOf(k)' = ResultOf(k)]_vars

\* hotels failed while attractions, flights and weather succeeded, and each of
\* the three kept the value of its own response
C5_Witness ==
    /\ pc = "generate"
    /\ Len(served) = 4
    /\ served[2].raises
    /\ hotels = <<PyStr("No hotels found")>>
    /\ Len(attractions) = Cap
    /\ Len(flights) = 2
    /\ weather = "31"

\* C6: the steps run one after another in the order attractions, hotels,
\* flights, weather, generation, display: the i-th query is the i-th lookup's,
\* a lookup stands to run exactly when the ones before it have been answered,
\* the model is called only after the four lookups, and nothing is rendered
\* before the generation step has ended.
C6_StrictSequence ==
    /\ [](/\ Len(queryLog) <= 4
          /\ Len(served) = Len(queryLog)
          /\ \A i \in 1..Len(queryLog) : queryLog[i].kind = Kinds[i]
          /\ StepIdx(pc) \in 1..4 => Len(queryLog) = StepIdx(pc) - 1
          /\ StepIdx(pc) > 4 => Len(queryLog) = 4
          /\ llmCalls > 0 => (Len(queryLog) = 4 /\ StepIdx(pc) > 5)
          /\ screen # <<>> => pc = "done"
          /\ (\E i \in 1..Len(screen) : screen[i].widget # "error") => llmCalls = 1)
    /\ [][\/ StepIdx(pc') = StepIdx(pc) + 1
          \/ pc \in {"generate", "display"} /\ pc' = "done"
          \/ pc = "done" /\ pc' = "attractions"]_vars

\* a run that went through all six steps and rendered the sections
C6_Witness ==
    /\ pc = "done"
    /\ raisedAt = "none"
    /\ Len(queryLog) = 4
    /\ llmCalls = 1
    /\ Len(screen) > 9

\* C7: the model is called with exactly ten keyword arguments, the six trip
\* parameters as entered and the four lookup results (each list joined with
\* ", ", the weather string as it is); a successful run renders each list
\* element by element in the lookup's order and the itinerary as returned.
C7_ArgumentsAndDisplay ==
    /\ llmCalls > 0 =>
          /\ DOMAIN llmArgs = {"departure", "destination", "start_date", "end_date",
                               "budget", "interests", "places", "weather", "hotels",
                               "flights"}
          /\ llmArgs.departure = trip.departure
          /\ llmArgs.destination = trip.destination
          /\ llmArgs.start_date = trip.start_date
          /\ llmArgs.end_date = trip.end_date
          /\ llmArgs.budget = trip.budget
          /\ llmArgs.interests = trip.interests
          /\ llmArgs.weather = weather
          /\ llmArgs.places = Joined(", ", attractions)
          /\ llmArgs.hotels = Joined(", ", hotels)
          /\ llmArgs.flights = Joined(", ", flights)
          /\ Len(attractions) = 2 => llmArgs.places = attractions[1].s \o ", " \o attractions[2].s
    /\ (pc = "done" /\ raisedAt = "none") =>
          LET a == Len(attractions)
              h == Len(hotels)
              f == Len(flights)
          IN  /\ Len(screen) = a + h + f + 8
              /\ screen[1].widget = "success"
              /\ \A i \in 1..a : screen[2 + i] = Widget("write", "- " \o attractions[i].s)
              /\ \A i \in 1..h : screen[3 + a + i] = Widget("write", "- " \o hotels[i].s)
              /\ \A i \in 1..f : screen[4 + a + h + i] = Widget("write", "- " \o flights[i].s)
              /\ screen[6 + a + h + f] = Widget("write", weather)
              /\ screen[8 + a + h + f] = Widget("markdown", itinerary)

\* a successful run for the Goa trip with five attractions and two hotels
C7_Witness ==
    /\ pc = "done"
    /\ raisedAt = "none"
    /\ trip.departure = "DEL"
    /\ Len(attractions) = Cap
    /\ hotels = <<PyStr("Taj - 3001 INR"), PyStr("Ibis - 3002 INR")>>
    /\ llmArgs.hotels = "Taj - 3001 INR, Ibis - 3002 INR"
    /\ itinerary # ""

\* C8: the replacement fields of the template, the declared input variables
\* and the keyword arguments of the call are the same ten names, so the call
\* is never refused for a missing key and the filled prompt holds each
\* argument in the place of its field, with no field left.
C8_TemplateFullySubstituted ==
    /\ raisedAt # "format"
    /\ llmCalls > 0 =>
          /\ Placeholders(prompt_template) = DOMAIN llmArgs
          /\ input_variables = DOMAIN llmArgs
          /\ Cardinality(DOMAIN llmArgs) = 10
          /\ Len(prompt) = Len(prompt_template)
          /\ \A i \in 1..Len(prompt) :
                /\ ~prompt[i].ph
                /\ prompt[i].text = (IF prompt_template[i].ph
                                     THEN llmArgs[prompt_template[i].text]
                                     ELSE prompt_template[i].text)

\* the model was called with the filled prompt of the Goa trip
C8_Witness ==
    /\ llmCalls = 1
    /\ trip.destination = "Goa"
    /\ Len(prompt) = 21
    /\ prompt[4].text = "Goa"
    /\ weather = "31"

\* C9: no retries: a run issues one query per lookup, failed or not (four in
\* all once the lookups are over), calls the model at most once, and after a
\* failed generation call stands at its end with nothing run again.
C9_NoRetries ==
    /\ \A i, j \in 1..Len(queryLog) : queryLog[i].kind = queryLog[j].kind => i = j
    /\ \A k \in 1..4 :
          StepIdx(pc) > k => Cardinality({i \in 1..Len(queryLog) : queryLog[i].kind = Kinds[k]}) = 1
    /\ llmCalls <= 1
    /\ raisedAt = "generation" => (pc = "done" /\ llmCalls = 1 /\ Len(queryLog) = 4)

\* a run in which two lookups and then the generation call failed
C9_Witness ==
    /\ pc = "done"
    /\ raisedAt = "generation"
    /\ Len(served) = 4
    /\ served[2].raises
    /\ served[4].raises
    /\ Len(queryLog) = 4

\* C10 as stated: a finished run shows either the complete success display or
\* the error message alone; the success banner and the error message are
\* never both on the page and no partial set of sections is left.
C10_Original ==
    pc = "done" =>
        \/ screen = DisplayCalls
        \/ Len(screen) = 1 /\ screen[1].widget = "error"

====
